---- MODULE Spec2Model ----
(***************************************************************************)
(* acmefmt (cmd/acmefmt/main.go): one reformat cycle of a window.           *)
(*                                                                         *)
(* Texts on the Go side (old, new, latest, diff) are sequences of bytes;    *)
(* the acme window body is a sequence of runes and window addresses are     *)
(* rune offsets.  A byte is written as a string: "\n", and the two bytes    *)
(* "C3" "A9" of the rune "e'" (U+00E9), so that bytes and runes differ.     *)
(***************************************************************************)
EXTENDS Integers, Sequences, FiniteSets, TLC

\* ------------------------------------------------------------------ bounds
\* longest file, in runes
MaxLen == 4
\* edits another actor makes to the window body during one cycle
MaxEdits == 1

\* ------------------------------------------------------------ text basics
NL == "\n"

Runes == {"e'", NL}

\* UTF-8 encoding of one rune
EncodeRune(r) == IF r = "e'" THEN <<"C3", "A9">> ELSE <<r>>

RECURSIVE Encode(_)
\* the bytes of a rune sequence (what reading the body file returns)
Encode(rs) == IF rs = <<>> THEN <<>> ELSE EncodeRune(Head(rs)) \o Encode(Tail(rs))

RECURSIVE Decode(_)
\* the runes of a byte sequence (what acme stores for a data write);
\* a byte that starts no valid encoding becomes the replacement rune "?"
Decode(bs) ==
    IF bs = <<>> THEN <<>>
    ELSE IF Head(bs) = "C3" /\ Len(bs) >= 2 /\ bs[2] = "A9"
         THEN <<"e'">> \o Decode(Tail(Tail(bs)))
    ELSE IF Head(bs) \in {"C3", "A9"} THEN <<"?">> \o Decode(Tail(bs))
    ELSE <<Head(bs)>> \o Decode(Tail(bs))

\* utf8.RuneCount: bytes that are not continuation bytes of a valid encoding
RuneCount(bs) == Len(Decode(bs))

Slice(s, from, to) == IF from > to THEN <<>> ELSE SubSeq(s, from, to)

RECURSIVE SeqsUpTo(_, _)
SeqsUpTo(S, n) ==
    IF n = 0 THEN {<<>>}
    ELSE LET shorter == SeqsUpTo(S, n - 1)
         IN  shorter \cup {Append(s, x) : s \in {t \in shorter : Len(t) = n - 1}, x \in S}

\* rune sequences of at most n runes
RuneSeqs(n) == SeqsUpTo(Runes, n)

\* files: texts of whole lines (every line ends in a newline)
Docs == {Encode(rs) : rs \in {t \in RuneSeqs(MaxLen) : t = <<>> \/ t[Len(t)] = NL}}

RECURSIVE SplitLines(_)
\* the lines of a text of whole lines, each with its newline
SplitLines(bs) ==
    IF bs = <<>> THEN <<>>
    ELSE LET k == CHOOSE k \in 1..Len(bs) : bs[k] = NL /\ \A m \in 1..(k - 1) : bs[m] # NL
         IN  <<SubSeq(bs, 1, k)>> \o SplitLines(Slice(bs, k + 1, Len(bs)))

RECURSIVE Flatten(_)
Flatten(ls) == IF ls = <<>> THEN <<>> ELSE Head(ls) \o Flatten(Tail(ls))

\* ---------------------------------------------------------------- findLines
RECURSIVE SkipLinesKeepEnd(_, _, _, _)
\* the first loop without its end--
SkipLinesKeepEnd(text, i, start, end) ==
    IF i < Len(text) /\ start > 0
    THEN IF text[i + 1] = NL
         THEN SkipLinesKeepEnd(text, i + 1, start - 1, end)
         ELSE SkipLinesKeepEnd(text, i + 1, start, end)
    ELSE <<i, end>>

RECURSIVE SkipLines(_, _, _, _)
\* first loop of findLines: <<i, end>> after skipping start-1 lines
SkipLines(text, i, start, end) ==
    IF i < Len(text) /\ start > 0
    THEN IF text[i + 1] = NL
         THEN SkipLines(text, i + 1, start - 1, end - 1)
         ELSE SkipLines(text, i + 1, start, end)
    ELSE <<i, end>>

RECURSIVE TakeLines(_, _, _)
\* second loop of findLines: i after taking end lines
TakeLines(text, i, end) ==
    IF i < Len(text) /\ end > 0
    THEN IF text[i + 1] = NL
         THEN TakeLines(text, i + 1, end - 1)
         ELSE TakeLines(text, i + 1, end)
    ELSE i

findLines(text, start, end) ==
    LET s == SkipLines(text, 0, start - 1, end)
        startByte == s[1]
        endByte == TakeLines(text, startByte, s[2])
    IN  Slice(text, startByte + 1, endByte)

\* ---------------------------------------------------------------- parseSpan
Digits == <<"0", "1", "2", "3", "4", "5", "6", "7", "8", "9">>

DigitVal(c) == (CHOOSE d \in 1..10 : Digits[d] = c) - 1

IsDigit(c) == \E d \in 1..10 : Digits[d] = c

RECURSIVE DigitsVal(_, _)
DigitsVal(cs, acc) ==
    IF cs = <<>> THEN acc ELSE DigitsVal(Tail(cs), acc * 10 + DigitVal(Head(cs)))

AllDigits(cs) == cs # <<>> /\ \A k \in 1..Len(cs) : IsDigit(cs[k])

\* strconv.Atoi: [ok, n]; an optional sign, then decimal digits only
Atoi(cs) ==
    IF AllDigits(cs) THEN [ok |-> TRUE, n |-> DigitsVal(cs, 0)]
    ELSE IF cs # <<>> /\ Head(cs) = "+" /\ AllDigits(Tail(cs))
         THEN [ok |-> TRUE, n |-> DigitsVal(Tail(cs), 0)]
    ELSE IF cs # <<>> /\ Head(cs) = "-" /\ AllDigits(Tail(cs))
         THEN [ok |-> TRUE, n |-> 0 - DigitsVal(Tail(cs), 0)]
    ELSE [ok |-> FALSE, n |-> 0]

\* strings.Index(text, c): 0-based, -1 when absent
Index(cs, c) ==
    IF \E k \in 1..Len(cs) : cs[k] = c
    THEN (CHOOSE k \in 1..Len(cs) : cs[k] = c /\ \A m \in 1..(k - 1) : cs[m] # c) - 1
    ELSE -1

\* parseSpan: [start, end, logged]; logged says "cannot parse span" was logged
parseSpan(text) ==
    LET i == Index(text, ",")
    IN  IF i < 0
        THEN LET a == Atoi(text)
             IN  IF ~a.ok THEN [start |-> 0, end |-> 0, logged |-> TRUE]
                 ELSE [start |-> a.n, end |-> a.n, logged |-> FALSE]
        ELSE LET a1 == Atoi(Slice(text, 1, i))
                 a2 == Atoi(Slice(text, i + 2, Len(text)))
             IN  IF ~a1.ok \/ ~a2.ok THEN [start |-> 0, end |-> 0, logged |-> TRUE]
                 ELSE [start |-> a1.n, end |-> a2.n, logged |-> FALSE]

\* --------------------------------------------------------- 9 diff old new
\* The external line differ.  Its output is any edit script in normal diff
\* format that keeps a longest common subsequence of the lines of old and new.
RECURSIVE Itoa(_)
Itoa(n) == IF n < 10 THEN <<Digits[n + 1]>> ELSE Itoa(n \div 10) \o <<Digits[(n % 10) + 1]>>

RECURSIVE Matchings(_, _, _, _)
\* the monotone matchings of equal lines ol[i..] and nl[j..], as sequences of <<i, j>>
Matchings(ol, nl, i, j) ==
    IF i > Len(ol) \/ j > Len(nl) THEN {<<>>}
    ELSE Matchings(ol, nl, i + 1, j) \cup Matchings(ol, nl, i, j + 1)
         \cup (IF ol[i] = nl[j]
               THEN {<<(<<i, j>>)>> \o m : m \in Matchings(ol, nl, i + 1, j + 1)}
               ELSE {})

LongestMatchings(ol, nl) ==
    LET all == Matchings(ol, nl, 1, 1)
    IN  {m \in all : \A m2 \in all : Len(m2) <= Len(m)}

RECURSIVE Hunks(_, _, _, _)
\* the change records between the matched pairs ms (ascending), after the pair <<pi, pj>>;
\* m and n are the line counts of old and new
Hunks(ms, pi, pj, mn) ==
    LET q == IF ms = <<>> THEN <<mn[1] + 1, mn[2] + 1>> ELSE Head(ms)
        oldGap == q[1] - pi - 1
        newGap == q[2] - pj - 1
        h == IF oldGap = 0 /\ newGap = 0 THEN <<>>
             ELSE IF oldGap = 0
                  THEN <<[cmd |-> "a", o1 |-> pi, o2 |-> pi, n1 |-> pj + 1, n2 |-> q[2] - 1]>>
             ELSE IF newGap = 0
                  THEN <<[cmd |-> "d", o1 |-> pi + 1, o2 |-> q[1] - 1, n1 |-> pj, n2 |-> pj]>>
             ELSE <<[cmd |-> "c", o1 |-> pi + 1, o2 |-> q[1] - 1, n1 |-> pj + 1, n2 |-> q[2] - 1]>>
    IN  IF ms = <<>> THEN h ELSE h \o Hunks(Tail(ms), q[1], q[2], mn)

SpanText(x, y) == IF x = y THEN Itoa(x) ELSE Itoa(x) \o <<",">> \o Itoa(y)

\* a line of a file less its newline
Chomp(l) == Slice(l, 1, Len(l) - 1)

\* the output lines of one change record: the header, then the lines involved
HunkText(h, ol, nl) ==
    <<SpanText(h.o1, h.o2) \o <<h.cmd>> \o SpanText(h.n1, h.n2)>>
    \o (IF h.cmd = "a" THEN <<>> ELSE [k \in 1..(h.o2 - h.o1 + 1) |-> <<"<", " ">> \o Chomp(ol[h.o1 + k - 1])])
    \o (IF h.cmd = "c" THEN <<(<<"-", "-", "-">>)>> ELSE <<>>)
    \o (IF h.cmd = "d" THEN <<>> ELSE [k \in 1..(h.n2 - h.n1 + 1) |-> <<">", " ">> \o Chomp(nl[h.n1 + k - 1])])

RECURSIVE ScriptText(_, _, _)
ScriptText(hs, ol, nl) ==
    IF hs = <<>> THEN <<>> ELSE HunkText(Head(hs), ol, nl) \o ScriptText(Tail(hs), ol, nl)

\* the change records an LCS line diff of old against new can report
ChangeRecords(old, new) ==
    LET ol == SplitLines(old)
        nl == SplitLines(new)
    IN  {Hunks(m, 0, 0, <<Len(ol), Len(nl)>>) : m \in LongestMatchings(ol, nl)}

\* strings.Split(diff, "\n") of the output for change records hs: the text ends in a
\* newline (or is empty), so the last element is the empty line
DiffLines(hs, old, new) == ScriptText(hs, SplitLines(old), SplitLines(new)) \o <<(<<>>)>>

\* ------------------------------------------------------------ readImports
\* The top region of a text: everything up to and including the first blank
\* line, or the whole text when it has none.
RECURSIVE TopLines(_)
TopLines(ls) ==
    IF ls = <<>> THEN <<>>
    ELSE IF Head(ls) = <<NL>> THEN <<Head(ls)>>
    ELSE <<Head(ls)>> \o TopLines(Tail(ls))

readImports(text) == Flatten(TopLines(SplitLines(text)))

\* ------------------------------------------------------- the acme window
\* Line n of the body as a range of rune offsets (acme's line address):
\* scan forward from 0 counting newlines; n one past the last line is the
\* empty range at the end; further is "address out of range".
RECURSIVE LineScan(_, _, _, _)
LineScan(b, q0, q1, line) ==
    IF line > 0 /\ q1 < Len(b)
    THEN IF b[q1 + 1] = NL \/ q1 + 1 = Len(b)
         THEN LineScan(b, IF line - 1 > 0 THEN q1 + 1 ELSE q0, q1 + 1, line - 1)
         ELSE LineScan(b, q0, q1 + 1, line)
    ELSE IF line = 1 /\ q1 = Len(b) THEN [ok |-> TRUE, q0 |-> q0, q1 |-> q1]
    ELSE IF line > 0 THEN [ok |-> FALSE, q0 |-> 0, q1 |-> 0]
    ELSE [ok |-> TRUE, q0 |-> q0, q1 |-> q1]

AddrLine(b, n) == IF n < 0 THEN [ok |-> FALSE, q0 |-> 0, q1 |-> 0] ELSE LineScan(b, 0, 0, n)

\* w.Addr(expr) against body b: [ok, q0, q1]
\*   "after" n     is "%d+#0"  (the empty range at the end of line n)
\*   "lines" n m   is "%d,%d"
\*   "top"   k     is "0,#%d"
EvalAddr(b, e) ==
    IF e.kind = "after"
    THEN LET r == AddrLine(b, e.n)
         IN  IF r.ok THEN [ok |-> TRUE, q0 |-> r.q1, q1 |-> r.q1] ELSE r
    ELSE IF e.kind = "lines"
    THEN LET r1 == AddrLine(b, e.n)
             r2 == AddrLine(b, e.m)
         IN  IF r1.ok /\ r2.ok /\ r1.q0 <= r2.q1
             THEN [ok |-> TRUE, q0 |-> r1.q0, q1 |-> r2.q1]
             ELSE [ok |-> FALSE, q0 |-> 0, q1 |-> 0]
    ELSE IF e.n <= Len(b) THEN [ok |-> TRUE, q0 |-> 0, q1 |-> e.n]
    ELSE [ok |-> FALSE, q0 |-> 0, q1 |-> 0]

\* whether a write to data at address a is accepted by a body b
DataOk(b, a) == a.q0 <= Len(b) /\ a.q1 <= Len(b)

\* the body after a write of runes rs to data at address a
DataWrite(b, a, rs) ==
    IF DataOk(b, a) THEN Slice(b, 1, a.q0) \o rs \o Slice(b, a.q1 + 1, Len(b)) ELSE b

\* the window address after that write
DataAddr(b, a, rs) ==
    IF DataOk(b, a) THEN [q0 |-> a.q0 + Len(rs), q1 |-> a.q0 + Len(rs)] ELSE a

\* ------------------------------------------------------------------ state
VARIABLES
    pc,         \* where reformat is
    dofmt,      \* flag -f
    file,       \* the bytes of the file on disk
    body,       \* the runes of the window body
    addr,       \* the window's address, [q0, q1]
    old,        \* ioutil.ReadFile(name)
    new,        \* the formatter's output
    latest,     \* w.ReadAll("body")
    diffLines,  \* strings.Split(string(diff), "\n")
    iter,       \* iterations of the hunk loop completed
    writes,     \* the writes made to the window's files, in order
    logged,     \* what log.Print wrote, in order
    stderr,     \* what was written to os.Stderr, in order
    outcome,    \* how the cycle ended
    ops,        \* history: the data writes, each with the hunk it came from
    expect,     \* history: old as changed by this cycle's own writes only
    genuine,    \* history: the diff output is the bare edit script
    edits,      \* history: edits made to the body by another actor
    fmtexts,    \* flag -e
    fmtcmd,     \* flag -c
    event,      \* main: the log event last read
    cmd,        \* reformat's cmd: the formatter main chose
    arg,        \* the arguments of a function called by itself
    res         \* and its result

vars == <<pc, dofmt, file, body, addr, old, new, latest, diffLines, iter, writes,
          logged, stderr, outcome, ops, expect, genuine, edits,
          fmtexts, fmtcmd, event, cmd, arg, res>>

\* what a cycle of reformat leaves alone
outer == <<fmtexts, fmtcmd, event, cmd, arg, res>>

\* a text not read yet
None == <<"none">>

\* names, as their characters
GoName == <<"a", ".", "g", "o">>

Init ==
    /\ pc = "open"
    /\ dofmt \in BOOLEAN
    /\ file \in Docs
    /\ body = Decode(file)
    /\ addr = [q0 |-> 0, q1 |-> 0]
    /\ old = None
    /\ new = None
    /\ latest = None
    /\ diffLines = <<>>
    /\ iter = 0
    /\ writes = <<>>
    /\ logged = <<>>
    /\ stderr = <<>>
    /\ outcome = "running"
    /\ ops = <<>>
    /\ expect = <<>>
    /\ genuine = TRUE
    /\ edits = 0
    /\ fmtexts = <<>>
    /\ fmtcmd = ""
    /\ event = [name |-> GoName, op |-> "put"]
    /\ cmd = "goimports"
    /\ arg = <<>>
    /\ res = <<>>

Return(how) == pc' = "return" /\ outcome' = how

Log(msgs) == logged' = logged \o msgs

WinWrite(ws) == writes' = writes \o ws

\* -------------------------------------------------------------- reformat
\* acme.Open(id, nil)
Open ==
    /\ pc = "open"
    /\ \/ pc' = "readfile" /\ UNCHANGED <<logged, outcome>>
       \/ Log(<<"open">>) /\ Return("openfail")
    /\ UNCHANGED <<dofmt, file, body, addr, old, new, latest, diffLines, iter, writes,
                   stderr, ops, expect, genuine, edits>>
    /\ UNCHANGED outer

\* old, err := ioutil.ReadFile(name)
ReadFile ==
    /\ pc = "readfile"
    /\ \/ old' = file /\ expect' = Decode(file) /\ pc' = "format" /\ UNCHANGED outcome
       \/ Return("readfail") /\ UNCHANGED <<old, expect>>
    /\ UNCHANGED <<dofmt, file, body, addr, new, latest, diffLines, iter, writes,
                   logged, stderr, ops, genuine, edits>>
    /\ UNCHANGED outer

\* the no-op test left out
SameNever(o, n) == FALSE

\* bytes.Equal(old, new): nothing to do
Same(o, n) == o = n

\* the error report swallowed
FmtReportNothing(msg) == <<>>

\* what the error report puts on os.Stderr, in either of its two forms
FmtReport(msg) == <<msg>>

\* new, err := exec.Command(cmd, name).CombinedOutput(), and the branch on its result
RunFormatter ==
    /\ pc = "format"
    /\ \/ \E out \in Docs :
            /\ new' = out
            /\ IF Same(old, out) THEN Return("same")
               ELSE pc' = (IF dofmt THEN "tempfile" ELSE "top") /\ UNCHANGED outcome
            /\ UNCHANGED stderr
       \/ \E msg \in {"fatal error", "output"} :
            /\ stderr' = stderr \o FmtReport(msg)
            /\ Return("fmtfail")
            /\ UNCHANGED new
    /\ UNCHANGED <<dofmt, file, body, addr, old, latest, diffLines, iter, writes,
                   logged, ops, expect, genuine, edits>>
    /\ UNCHANGED outer

\* the top region measured in bytes instead of runes
TopAddrBytes(oldTop) == [kind |-> "top", n |-> Len(oldTop), m |-> 0]

\* the address of the top region: "0,#%d" with utf8.RuneCount(oldTop)
TopAddr(oldTop) == [kind |-> "top", n |-> RuneCount(oldTop), m |-> 0]

\* !*dofmt: compare the import blocks and address the old one
TopOfFile ==
    /\ pc = "top"
    /\ \/ Return("toperr") /\ UNCHANGED <<addr, writes>>
       \/ LET oldTop == readImports(old)
              newTop == readImports(new)
              a == EvalAddr(body, TopAddr(oldTop))
          IN  IF oldTop = newTop
              THEN Return("topsame") /\ UNCHANGED <<addr, writes>>
              ELSE /\ pc' = "topwrite"
                   /\ addr' = IF a.ok THEN [q0 |-> a.q0, q1 |-> a.q1] ELSE addr
                   /\ WinWrite(<<[f |-> "addr", e |-> TopAddr(oldTop), ok |-> a.ok]>>)
                   /\ UNCHANGED outcome
    /\ UNCHANGED <<dofmt, file, body, old, new, latest, diffLines, iter,
                   logged, stderr, ops, expect, genuine, edits>>
    /\ UNCHANGED outer

\* one data write of bytes bs for hunk h at the current address
WriteData(h, bs) ==
    LET rs == Decode(bs)
    IN  /\ body' = DataWrite(body, addr, rs)
        /\ addr' = DataAddr(body, addr, rs)
        /\ expect' = DataWrite(expect, addr, rs)
        /\ WinWrite(<<[f |-> "data", b |-> bs, ok |-> DataOk(body, addr)]>>)
        /\ ops' = Append(ops, [hunk |-> h, q0 |-> addr.q0, q1 |-> addr.q1, b |-> bs,
                               ok |-> DataOk(body, addr), pre |-> body, exp |-> expect])

\* w.Write("data", newTop)
TopWrite ==
    /\ pc = "topwrite"
    /\ WriteData([cmd |-> "top", o1 |-> 0, o2 |-> 0, n1 |-> 0, n2 |-> 0], readImports(new))
    /\ Return("topdone")
    /\ UNCHANGED <<dofmt, file, old, new, latest, diffLines, iter, logged, stderr,
                   genuine, edits>>
    /\ UNCHANGED outer

\* ioutil.TempFile and f.Write(new)
TempFile ==
    /\ pc = "tempfile"
    /\ \/ pc' = "diff" /\ UNCHANGED <<logged, outcome>>
       \/ Log(<<"tempfile">>) /\ Return("tmpfail")
    /\ UNCHANGED <<dofmt, file, body, addr, old, new, latest, diffLines, iter, writes,
                   stderr, ops, expect, genuine, edits>>
    /\ UNCHANGED outer

\* lines that are not part of an edit script, as the combined output may hold
JunkLines == {<<"?">>, <<"x", "a", "1">>, <<"9", "c", "9">>}

\* (a polluted output and an edit by another actor are explored apart)

\* the positions of the hunk headers among the lines ls, and the end
Boundaries(ls) ==
    {k \in 1..Len(ls) : IF ls[k] = <<>> THEN TRUE ELSE Head(ls[k]) \notin {"<", ">", "-"}}

InsertAt(s, k, x) == Slice(s, 1, k - 1) \o <<x>> \o Slice(s, k, Len(s))

\* diff, _ := exec.Command("9", "diff", name, tmp).CombinedOutput()
RunDiff ==
    /\ pc = "diff"
    /\ \E hs \in ChangeRecords(old, new) :
          LET ls == DiffLines(hs, old, new)
          IN  \/ diffLines' = ls /\ genuine' = TRUE
              \/ /\ edits = 0
                 /\ \E k \in Boundaries(ls), j \in JunkLines :
                       diffLines' = InsertAt(ls, k, j) /\ genuine' = FALSE
    /\ pc' = "readbody"
    /\ UNCHANGED <<dofmt, file, body, addr, old, new, latest, iter, writes,
                   logged, stderr, outcome, ops, expect, edits>>
    /\ UNCHANGED outer

\* the staleness guard left out
StaleNever(o, l) == FALSE

\* !bytes.Equal(old, latest): the window was modified since Put
Stale(o, l) == o # l

\* latest, err := w.ReadAll("body"), and the staleness guard
ReadBody ==
    /\ pc = "readbody"
    /\ \/ Log(<<"readall">>) /\ Return("bodyfail") /\ UNCHANGED latest
       \/ /\ latest' = Encode(body)
          /\ IF Stale(old, Encode(body))
             THEN Log(<<"skipped update">>) /\ Return("stale")
             ELSE pc' = "mark" /\ UNCHANGED <<logged, outcome>>
    /\ UNCHANGED <<dofmt, file, body, addr, old, new, diffLines, iter, writes,
                   stderr, ops, expect, genuine, edits>>
    /\ UNCHANGED outer

\* w.Write("ctl", "mark")
Mark ==
    /\ pc = "mark"
    /\ WinWrite(<<[f |-> "ctl", b |-> "mark", ok |-> TRUE]>>)
    /\ pc' = "nomark"
    /\ UNCHANGED <<dofmt, file, body, addr, old, new, latest, diffLines, iter,
                   logged, stderr, outcome, ops, expect, genuine, edits>>
    /\ UNCHANGED outer

\* w.Write("ctl", "nomark")
NoMark ==
    /\ pc = "nomark"
    /\ WinWrite(<<[f |-> "ctl", b |-> "nomark", ok |-> TRUE]>>)
    /\ pc' = "loop"
    /\ UNCHANGED <<dofmt, file, body, addr, old, new, latest, diffLines, iter,
                   logged, stderr, outcome, ops, expect, genuine, edits>>
    /\ UNCHANGED outer

\* ---------------------------------------------------------- the hunk loop
\* the loop run from the first line to the last
LoopIndexAscending(k, n) == k + 1

\* for i := len(diffLines) - 1; i >= 0; i--: the line (1-based) of iteration k of n
LoopIndex(k, n) == n - k

CurLine == diffLines[LoopIndex(iter, Len(diffLines))]

InLoop == pc = "loop" /\ iter < Len(diffLines)

\* line == "" or a line of content: '<', '-' or '>' first
IsContent(line) == IF line = <<>> THEN TRUE ELSE Head(line) \in {"<", "-", ">"}

IsCmd(c) == c \in {"a", "c", "d"}

\* j: the 0-based index of the first command letter, len(line) when there is none
CmdIndex(line) ==
    IF \E k \in 1..Len(line) : IsCmd(line[k])
    THEN (CHOOSE k \in 1..Len(line) : IsCmd(line[k]) /\ \A m \in 1..(k - 1) : ~IsCmd(line[m])) - 1
    ELSE Len(line)

\* the header line parsed: the command, parseSpan of both sides, and what that logged
ParseHunk(line) ==
    LET j == CmdIndex(line)
        o == parseSpan(Slice(line, 1, j))
        n == parseSpan(Slice(line, j + 2, Len(line)))
    IN  [cmd |-> line[j + 1], o1 |-> o.start, o2 |-> o.end, n1 |-> n.start, n2 |-> n.end,
         msgs |-> (IF o.logged THEN <<"cannot parse span">> ELSE <<>>)
                  \o (IF n.logged THEN <<"cannot parse span">> ELSE <<>>)]

Hunk(h) == [cmd |-> h.cmd, o1 |-> h.o1, o2 |-> h.o2, n1 |-> h.n1, n2 |-> h.n2]

\* oldStart == 0 || newStart == 0
Degenerate(h) == h.o1 = 0 \/ h.n1 = 0

\* an insertion addressed like a change: the line itself
HunkAddrReplace(h) == [kind |-> "lines", n |-> h.o1, m |-> h.o2]

\* the address a hunk is applied at
HunkAddr(h) ==
    IF h.cmd = "a" THEN [kind |-> "after", n |-> h.o1, m |-> 0]
    ELSE [kind |-> "lines", n |-> h.o1, m |-> h.o2]

\* the bytes written for a hunk
HunkData(h, text) == IF h.cmd = "d" THEN <<>> ELSE findLines(text, h.n1, h.n2)

\* continue instead of break
AfterUnparseableContinue == "loop"

\* where the loop goes after a line it cannot parse: break
AfterUnparseable == "return"

LoopSkip ==
    /\ InLoop
    /\ IsContent(CurLine)
    /\ iter' = iter + 1
    /\ UNCHANGED <<pc, dofmt, file, body, addr, old, new, latest, diffLines, writes,
                   logged, stderr, outcome, ops, expect, genuine, edits>>
    /\ UNCHANGED outer

LoopUnparseable ==
    /\ InLoop
    /\ ~IsContent(CurLine)
    /\ CmdIndex(CurLine) >= Len(CurLine)
    /\ Log(<<"cannot parse diff line">>)
    /\ pc' = AfterUnparseable
    /\ outcome' = IF AfterUnparseable = "return" THEN "unparseable" ELSE outcome
    /\ iter' = iter + 1
    /\ UNCHANGED <<dofmt, file, body, addr, old, new, latest, diffLines, writes,
                   stderr, ops, expect, genuine, edits>>
    /\ UNCHANGED outer

LoopDegenerate ==
    /\ InLoop
    /\ ~IsContent(CurLine)
    /\ CmdIndex(CurLine) < Len(CurLine)
    /\ Degenerate(ParseHunk(CurLine))
    /\ Log(ParseHunk(CurLine).msgs)
    /\ iter' = iter + 1
    /\ UNCHANGED <<pc, dofmt, file, body, addr, old, new, latest, diffLines, writes,
                   stderr, outcome, ops, expect, genuine, edits>>
    /\ UNCHANGED outer

\* the error of w.Addr not looked at
AddrFailedIgnored(a) == FALSE

\* err != nil after w.Addr
AddrFailed(a) == ~a.ok

\* err := w.Addr(...); on an error log it and leave the switch
LoopAddr ==
    /\ InLoop
    /\ ~IsContent(CurLine)
    /\ CmdIndex(CurLine) < Len(CurLine)
    /\ ~Degenerate(ParseHunk(CurLine))
    /\ LET h == ParseHunk(CurLine)
           a == EvalAddr(body, HunkAddr(h))
       IN  /\ WinWrite(<<[f |-> "addr", e |-> HunkAddr(h), ok |-> a.ok]>>)
           /\ addr' = IF a.ok THEN [q0 |-> a.q0, q1 |-> a.q1] ELSE addr
           /\ IF AddrFailed(a)
              THEN /\ Log(h.msgs \o <<"addr">>)
                   /\ iter' = iter + 1
                   /\ UNCHANGED pc
              ELSE /\ pc' = "write"
                   /\ Log(h.msgs)
                   /\ UNCHANGED iter
    /\ UNCHANGED <<dofmt, file, body, old, new, latest, diffLines,
                   stderr, outcome, ops, expect, genuine, edits>>
    /\ UNCHANGED outer

\* w.Write("data", ...)
LoopWrite ==
    /\ pc = "write"
    /\ LET h == ParseHunk(CurLine)
       IN  WriteData(Hunk(h), HunkData(h, new))
    /\ pc' = "loop"
    /\ iter' = iter + 1
    /\ UNCHANGED <<dofmt, file, old, new, latest, diffLines, logged, stderr, outcome,
                   genuine, edits>>
    /\ UNCHANGED outer

LoopEnd ==
    /\ pc = "loop"
    /\ iter >= Len(diffLines)
    /\ Return("done")
    /\ UNCHANGED <<dofmt, file, body, addr, old, new, latest, diffLines, iter, writes,
                   logged, stderr, ops, expect, genuine, edits>>
    /\ UNCHANGED outer

\* ------------------------------------------------------- the other actor
\* what a user of the window can make of the body in one edit
\* (a newline typed at the start, or the first rune deleted)
UserEdits(b) == {InsertAt(b, 1, NL)} \cup (IF b = <<>> THEN {} ELSE {Tail(b)})

Interfere ==
    /\ pc # "return"
    /\ genuine
    /\ edits < MaxEdits
    /\ \E b \in UserEdits(body) : body' = b
    /\ edits' = edits + 1
    /\ UNCHANGED <<pc, dofmt, file, addr, old, new, latest, diffLines, iter, writes,
                   logged, stderr, outcome, ops, expect, genuine>>
    /\ UNCHANGED outer

\* ---------------------------------------------------------- specifications
Next ==
    \/ Open
    \/ ReadFile
    \/ RunFormatter
    \/ TopOfFile
    \/ TopWrite
    \/ TempFile
    \/ RunDiff
    \/ ReadBody
    \/ Mark
    \/ NoMark
    \/ LoopSkip
    \/ LoopUnparseable
    \/ LoopDegenerate
    \/ LoopAddr
    \/ LoopWrite
    \/ LoopEnd

\* --------------------------------------------------- findLines by itself
\* texts, whole lines or not
Texts == {Encode(rs) : rs \in RuneSeqs(MaxLen)}

\* line numbers up to past the end of every text
MaxLine == MaxLen + 2

InitFind ==
    /\ pc = "findLines"
    /\ arg \in [text : Texts, start : 1..MaxLine, end : 0..MaxLine]
    /\ res = None
    /\ dofmt = TRUE
    /\ file = <<>>
    /\ body = <<>>
    /\ addr = [q0 |-> 0, q1 |-> 0]
    /\ old = None
    /\ new = None
    /\ latest = None
    /\ diffLines = <<>>
    /\ iter = 0
    /\ writes = <<>>
    /\ logged = <<>>
    /\ stderr = <<>>
    /\ outcome = "running"
    /\ ops = <<>>
    /\ expect = <<>>
    /\ genuine = TRUE
    /\ edits = 0
    /\ fmtexts = <<>>
    /\ fmtcmd = ""
    /\ event = [name |-> GoName, op |-> "put"]
    /\ cmd = "goimports"

CallFindLines ==
    /\ pc = "findLines"
    /\ res' = findLines(arg.text, arg.start, arg.end)
    /\ pc' = "found"
    /\ UNCHANGED <<dofmt, file, body, addr, old, new, latest, diffLines, iter, writes,
                   logged, stderr, outcome, ops, expect, genuine, edits,
                   fmtexts, fmtcmd, event, cmd, arg>>

NextFind == CallFindLines

\* findLines applied to every text and span within the bounds
SpecFind == InitFind /\ [][NextFind]_vars

\* one cycle with the window left alone
Spec == Init /\ [][Next]_vars

NextConc == Next \/ Interfere

\* one cycle with another actor editing the window
SpecConc == Init /\ [][NextConc]_vars

\* ------------------------------------------------------------------ main
\* strings.HasSuffix(s, suffix)
HasSuffix(s, suffix) ==
    /\ Len(s) >= Len(suffix)
    /\ SubSeq(s, Len(s) - Len(suffix) + 1, Len(s)) = suffix

\* strings.Split(s, " "): the fields between the spaces, empty ones included
RECURSIVE Split(_)
Split(s) ==
    IF \A k \in 1..Len(s) : s[k] # " "
    THEN <<s>>
    ELSE LET k == CHOOSE i \in 1..Len(s) : s[i] = " " /\ \A m \in 1..(i - 1) : s[m] # " "
         IN  <<SubSeq(s, 1, k - 1)>> \o Split(SubSeq(s, k + 1, Len(s)))

matchext(name, exts) == \E i \in 1..Len(exts) : HasSuffix(name, exts[i])

cexts ==
    << <<".", "c">>, <<".", "c", "c">>, <<".", "c", "p", "p">>, <<".", "c", "x", "x">>,
       <<".", "h">>, <<".", "h", "p", "p">> >>

goexts == << <<".", "g", "o">> >>

\* the built-in classes tried before the custom one
FormatterBuiltinFirst(e, c, name) ==
    IF matchext(name, cexts) THEN [run |-> TRUE, cmd |-> "clang-format"]
    ELSE IF matchext(name, goexts) THEN [run |-> TRUE, cmd |-> "goimports"]
    ELSE IF e # <<>> /\ matchext(name, Split(e)) THEN [run |-> TRUE, cmd |-> c]
    ELSE [run |-> FALSE, cmd |-> ""]

\* the switch of main: whether reformat is called for name, and with which command,
\* under the flags -e e and -c c
Formatter(e, c, name) ==
    IF e # <<>> /\ matchext(name, Split(e)) THEN [run |-> TRUE, cmd |-> c]
    ELSE IF matchext(name, cexts) THEN [run |-> TRUE, cmd |-> "clang-format"]
    ELSE IF matchext(name, goexts) THEN [run |-> TRUE, cmd |-> "goimports"]
    ELSE [run |-> FALSE, cmd |-> ""]

\* event.Name != "" && event.Op == "put"
IsPut(e) == e.name # <<>> /\ e.op = "put"

\* the flags -e and -c the program is started with
Flags ==
    { [e |-> <<>>, c |-> ""],
      [e |-> <<".", "g", "o">>, c |-> "gofmt"],
      [e |-> <<".", "x", " ", ".", "c">>, c |-> "indent"] }

\* the names of the windows
Names ==
    { <<>>, GoName, <<"a", ".", "c">>, <<"a", ".", "h", "p", "p">>, <<"a", ".", "x">>,
      <<"g", "o">> }

\* the events of the log
Events == [name : Names, op : {"put", "new"}]

\* the file a name holds when it has been put
FileOf(name) == IF name = GoName THEN Encode(<<"e'", NL>>) ELSE Encode(<<NL, NL>>)

InitMain ==
    /\ pc = "start"
    /\ dofmt \in BOOLEAN
    /\ \E fl \in Flags : fmtexts = fl.e /\ fmtcmd = fl.c
    /\ event = [name |-> <<>>, op |-> ""]
    /\ cmd = ""
    /\ file = <<>>
    /\ body = <<>>
    /\ addr = [q0 |-> 0, q1 |-> 0]
    /\ old = None
    /\ new = None
    /\ latest = None
    /\ diffLines = <<>>
    /\ iter = 0
    /\ writes = <<>>
    /\ logged = <<>>
    /\ stderr = <<>>
    /\ outcome = "idle"
    /\ ops = <<>>
    /\ expect = <<>>
    /\ genuine = TRUE
    /\ edits = 0
    /\ arg = <<>>
    /\ res = <<>>

\* what a cycle works on and records
cycle == <<file, body, addr, old, new, latest, diffLines, iter, writes, logged, stderr,
           outcome, ops, expect, genuine, edits>>

\* l, err := acme.Log()
OpenLog ==
    /\ pc = "start"
    /\ pc' \in {"main", "exit"}
    /\ UNCHANGED <<dofmt, cycle, outer>>

\* event, err := l.Read(), and the call of reformat when the event asks for one;
\* the window may have been edited since the put
ReadEvent ==
    /\ pc = "main"
    /\ \/ pc' = "exit" /\ UNCHANGED <<cycle, event, cmd>>
       \/ \E e \in Events :
             LET f == Formatter(fmtexts, fmtcmd, e.name)
             IN  /\ event' = e
                 /\ IF IsPut(e) /\ f.run
                    THEN /\ pc' = "open"
                         /\ cmd' = f.cmd
                         /\ file' = FileOf(e.name)
                         /\ \E b \in {Decode(FileOf(e.name))} \cup UserEdits(Decode(FileOf(e.name))) :
                               /\ body' = b
                               /\ edits' = IF b = Decode(FileOf(e.name)) THEN 0 ELSE 1
                         /\ outcome' = "running"
                         /\ UNCHANGED <<addr, old, new, latest, diffLines, iter, writes, logged,
                                        stderr, ops, expect, genuine>>
                    ELSE /\ pc' = "main"
                         /\ UNCHANGED <<cycle, cmd>>
    /\ UNCHANGED <<dofmt, fmtexts, fmtcmd, arg, res>>

\* the log.Fatal of main put where reformat returns
AfterReformatFatal == "exit"

\* where main goes on when reformat has returned: the next l.Read()
AfterReformat == "main"

\* reformat returns to the loop of main; what it held is gone
Returned ==
    /\ pc = "return"
    /\ pc' = AfterReformat
    /\ addr' = [q0 |-> 0, q1 |-> 0]
    /\ old' = None
    /\ new' = None
    /\ latest' = None
    /\ diffLines' = <<>>
    /\ iter' = 0
    /\ writes' = <<>>
    /\ logged' = <<>>
    /\ stderr' = <<>>
    /\ ops' = <<>>
    /\ expect' = <<>>
    /\ genuine' = TRUE
    /\ edits' = 0
    /\ UNCHANGED <<dofmt, file, body, outcome, outer>>

NextMain ==
    \/ OpenLog
    \/ ReadEvent
    \/ Returned
    \/ Next

\* the program: the event loop and the cycles it starts
SpecMain == InitMain /\ [][NextMain]_vars

\* ------------------------------------------------------------------ claims
Range(s) == {s[k] : k \in 1..Len(s)}

\* the runes of line n of a body, <<"no line">> when it has no such line
LineOf(b, n) ==
    LET r == AddrLine(b, n)
    IN  IF r.ok THEN Slice(b, r.q0 + 1, r.q1) ELSE <<"no line">>

\* the headers of the diff output that are applied: parsed, not degenerate
Applied(ls) ==
    {k \in 1..Len(ls) : IF IsContent(ls[k]) \/ CmdIndex(ls[k]) >= Len(ls[k]) THEN FALSE
                         ELSE ~Degenerate(ParseHunk(ls[k]))}

\* the hunk loop is at a header line whose old or new start parsed as 0
AtDegenerate ==
    /\ InLoop
    /\ IF IsContent(CurLine) \/ CmdIndex(CurLine) >= Len(CurLine) THEN FALSE
       ELSE Degenerate(ParseHunk(CurLine))

\* C1: round trip.  When the cycle has run the hunk loop to its end over the
\* edit script of old against new, the body is exactly new.
RoundTrip ==
    (dofmt /\ outcome = "done" /\ genuine) => Encode(body) = new

\* (The round trip does hold of every edit script with no hunk at line 0.)
RoundTripFromLineOne ==
    (dofmt /\ outcome = "done" /\ genuine
        /\ \A k \in 1..Len(diffLines) :
              IF IsContent(diffLines[k]) THEN TRUE ELSE ~Degenerate(ParseHunk(diffLines[k])))
    => Encode(body) = new

\* C2: staleness abandonment (whole-file mode).  When the body read at apply
\* time differs from old, the cycle has returned having written nothing to the
\* window (no ctl, no addr, no data; the address and the body are as they
\* were) and having logged the skipped update.
StaleAbandons ==
    (dofmt /\ latest # None /\ latest # old) =>
        /\ pc = "return"
        /\ writes = <<>>
        /\ ops = <<>>
        /\ addr = [q0 |-> 0, q1 |-> 0]
        /\ Encode(body) = latest
        /\ logged = <<"skipped update">>

StaleAbandonsWitness == dofmt /\ outcome = "stale" /\ latest # old /\ new # old

\* C3: order.  Over a genuine edit script, every operation applied later in a
\* cycle has a strictly smaller old start line than every one applied earlier.
DescendingOrder ==
    (dofmt /\ genuine) =>
        \A k \in 1..Len(ops) : \A l \in 1..Len(ops) :
            k < l => ops[l].hunk.o1 < ops[k].hunk.o1

DescendingOrderWitness == dofmt /\ genuine /\ outcome = "done" /\ Len(ops) >= 2

\* C4: address validity.  When an operation is about to be applied, every
\* line of the body numbered at or below its old end line is the same line of
\* old, and its address selects in the body the text it selects in old.
AddressValid ==
    (pc = "write" /\ genuine) =>
        LET h == ParseHunk(CurLine)
            a == EvalAddr(Decode(old), HunkAddr(h))
        IN  /\ \A n \in 1..h.o2 : LineOf(body, n) = LineOf(Decode(old), n)
            /\ a.ok /\ a.q0 = addr.q0 /\ a.q1 = addr.q1
            /\ Slice(body, 1, addr.q1) = Slice(Decode(old), 1, a.q1)

AddressValidWitness ==
    pc = "write" /\ genuine /\ ops # <<>> /\ Len(body) # Len(Decode(old))
    /\ ParseHunk(CurLine).o2 >= 2 /\ ParseHunk(CurLine).cmd = "c"

\* C5: compare-then-apply under interleaving.  Every data write of a
\* whole-file cycle that the window accepts is applied to a body that is old
\* as changed by the cycle's own earlier writes only.
GuardedWrites ==
    dofmt => \A k \in 1..Len(ops) : ops[k].ok => ops[k].pre = ops[k].exp

\* C6: the guard in top-of-file mode.  The region replacement is applied only
\* to a body that equals old.
TopGuarded ==
    ~dofmt => \A k \in 1..Len(ops) : ops[k].ok => Encode(ops[k].pre) = old

\* C7: region-mode containment.  A top-of-file cycle writes nothing when the
\* two top regions are identical; otherwise it sets one address, the runes
\* [0, length of oldTop), and writes newTop there once, and the body after
\* the top region is what it was.
RegionContainment ==
    (~dofmt /\ pc = "return" /\ outcome \in {"topsame", "topdone"}) =>
        LET oldTop == readImports(old)
            newTop == readImports(new)
            rest == Slice(old, Len(oldTop) + 1, Len(old))
        IN  IF oldTop = newTop THEN writes = <<>> /\ Encode(body) = old
            ELSE /\ Len(writes) = 2
                 /\ writes[1].f = "addr" /\ writes[1].ok
                 /\ writes[2] = [f |-> "data", b |-> newTop, ok |-> TRUE]
                 /\ Len(ops) = 1
                 /\ ops[1].q0 = 0
                 /\ Encode(Slice(ops[1].pre, 1, ops[1].q1)) = oldTop
                 /\ Encode(body) = newTop \o rest

RegionContainmentWitness ==
    /\ ~dofmt /\ outcome = "topdone"
    /\ "C3" \in Range(readImports(old))
    /\ Len(readImports(old)) < Len(old)
    /\ Slice(old, Len(readImports(old)) + 1, Len(old))
         # Slice(new, Len(readImports(new)) + 1, Len(new))

\* C8: no-op.  When the formatter's output is identical to old the cycle has
\* returned with no write to the window, nothing logged and nothing on the
\* error stream, in either mode.
NoOp ==
    (new # None /\ new = old) =>
        /\ pc = "return"
        /\ writes = <<>>
        /\ ops = <<>>
        /\ logged = <<>>
        /\ stderr = <<>>
        /\ body = Decode(old)

NoOpWitness == outcome = "same" /\ new = old /\ old # <<>>

\* C9: degenerate-span skip.  A hunk of a genuine edit script whose old or new
\* start is 0 is skipped with no write, the skip is logged, and the loop goes on.
DegenerateLogged ==
    [][(AtDegenerate /\ genuine) =>
          /\ writes' = writes
          /\ body' = body
          /\ pc' = "loop"
          /\ Len(logged') > Len(logged)]_vars

\* C10: unparseable hunk header.  Once a line that cannot be parsed has been
\* logged the cycle is over: no write, and what was applied stays applied.
UnparseableStops ==
    [][("cannot parse diff line" \in Range(logged)) =>
          /\ writes' = writes
          /\ body' = body
          /\ ops' = ops]_vars

UnparseableStopsWitness ==
    /\ outcome = "unparseable"
    /\ ops # <<>>
    /\ \E k \in Applied(diffLines) : k < LoopIndex(iter - 1, Len(diffLines))

StartOfLine(text, n) ==
    LET at == {i \in 0..Len(text) : Cardinality({m \in 1..i : text[m] = NL}) >= n - 1}
    IN  IF at = {} THEN Len(text) ELSE CHOOSE i \in at : \A j \in at : i <= j

\* C13: findLines.  For start >= 1 the result is the bytes from the start of
\* line start to the start of line end+1, both clamped to the end of the
\* text (with or without a final newline), and empty whenever start > end.
FindLinesExact ==
    pc = "found" =>
        /\ res = IF arg.start > arg.end THEN <<>>
                 ELSE Slice(arg.text, StartOfLine(arg.text, arg.start) + 1,
                            StartOfLine(arg.text, arg.end + 1))
        /\ Len(res) <= Len(arg.text)

FindLinesExactWitness ==
    /\ pc = "found"
    /\ arg.start = 2 /\ arg.end > Len(SplitLines(arg.text \o <<NL>>))
    /\ arg.text # <<>> /\ arg.text[Len(arg.text)] # NL
    /\ res # <<>> /\ NL \in Range(res)

\* lines n1..n2 of a text of whole lines
LinesOf(text, n1, n2) == Flatten(SubSeq(SplitLines(text), n1, n2))

\* C14: hunk-to-operation translation.  Each applied hunk of a genuine edit
\* script became one write: for 'a' at the zero-width point just after old
\* line oldStart, for 'c' and 'd' over old lines oldStart..oldEnd (newline of
\* the last line included); the bytes written are lines newStart..newEnd of
\* new for 'a' and 'c' and none for 'd'.
TranslationExact ==
    (dofmt /\ genuine) =>
        \A k \in 1..Len(ops) :
            LET o == ops[k]
                h == o.hunk
                ro == Decode(old)
            IN  /\ o.ok
                /\ h.cmd \in {"a", "c", "d"}
                /\ o.b = IF h.cmd = "d" THEN <<>> ELSE LinesOf(new, h.n1, h.n2)
                /\ IF h.cmd = "a"
                   THEN o.q0 = StartOfLine(ro, h.o1 + 1) /\ o.q1 = o.q0
                   ELSE /\ o.q0 = StartOfLine(ro, h.o1)
                        /\ o.q1 = StartOfLine(ro, h.o2 + 1)
                        /\ Encode(Slice(o.pre, o.q0 + 1, o.q1)) = LinesOf(old, h.o1, h.o2)

TranslationExactWitness ==
    /\ dofmt /\ genuine /\ outcome = "done"
    /\ \E k \in 1..Len(ops) : ops[k].hunk.cmd = "a" /\ ops[k].hunk.n2 > ops[k].hunk.n1
    /\ \E k \in 1..Len(ops) : ops[k].hunk.cmd # "a" /\ ops[k].hunk.o1 > 1

\* the loop stands at a hunk header whose address the window refuses
AtAddrFailure ==
    /\ InLoop
    /\ ~IsContent(CurLine)
    /\ CmdIndex(CurLine) < Len(CurLine)
    /\ ~Degenerate(ParseHunk(CurLine))
    /\ ~EvalAddr(body, HunkAddr(ParseHunk(CurLine))).ok

\* C15: address failure is per hunk.  When w.Addr fails for a hunk, that step
\* writes no data (body, address and the data writes stay as they were, the
\* refused addr write being the only window write), logs the error, and leaves
\* the loop at the next lower line of the diff output instead of returning.
AddrFailurePerHunk ==
    [][AtAddrFailure =>
          /\ ops' = ops
          /\ body' = body
          /\ addr' = addr
          /\ writes' = Append(writes, [f |-> "addr", e |-> HunkAddr(ParseHunk(CurLine)), ok |-> FALSE])
          /\ logged' = logged \o ParseHunk(CurLine).msgs \o <<"addr">>
          /\ pc' = "loop"
          /\ outcome' = outcome
          /\ iter' = iter + 1]_vars

\* a refused address between two data writes of one cycle
AddrFailurePerHunkWitness ==
    /\ outcome = "done"
    /\ \E i, j, k \in 1..Len(writes) :
          /\ i < j /\ j < k
          /\ writes[i].f = "data"
          /\ writes[j].f = "addr" /\ ~writes[j].ok
          /\ writes[k].f = "data"

\* the ways a cycle fails
Failures ==
    {"openfail", "readfail", "fmtfail", "toperr", "tmpfail", "bodyfail", "stale", "unparseable"}

\* C11: failure locality.  A failure inside reformat makes reformat return (an
\* address failure not even that: the loop goes on); a returned reformat leaves
\* main at its next read of the log with the window as the cycle left it; and
\* the process exits only from the opening or a read of the log.
FailureLocality ==
    [][/\ (outcome' \in Failures /\ outcome' # outcome) => pc' = "return"
       /\ AtAddrFailure => pc' = "loop"
       /\ pc = "return" => (pc' = "main" /\ body' = body /\ event' = event)
       /\ pc' = "exit" => pc \in {"start", "main"}]_vars

\* main is back at its read after a cycle that stopped at an unparseable line
\* with part of the edit script applied
FailureLocalityWitness ==
    /\ pc = "main"
    /\ outcome = "unparseable"
    /\ body # Decode(file)

\* ext is a suffix of name
Ends(name, ext) ==
    /\ Len(ext) <= Len(name)
    /\ \A i \in 1..Len(ext) : name[Len(name) - Len(ext) + i] = ext[i]

\* the space-separated fields of s
Fields(s) ==
    {SubSeq(s, i, j) : <<i, j>> \in
        {ij \in (1..(Len(s) + 1)) \X (0..Len(s)) :
            /\ ij[1] <= ij[2] + 1
            /\ \A k \in ij[1]..ij[2] : s[k] # " "
            /\ (ij[1] = 1 \/ s[ij[1] - 1] = " ")
            /\ (ij[2] = Len(s) \/ s[ij[2] + 1] = " ")}}

CClass ==
    {<<".", "c">>, <<".", "c", "c">>, <<".", "c", "p", "p">>, <<".", "c", "x", "x">>,
     <<".", "h">>, <<".", "h", "p", "p">>}

\* the class a name falls in, by priority
ClassOf(name) ==
    IF fmtexts # <<>> /\ \E x \in Fields(fmtexts) : Ends(name, x) THEN "custom"
    ELSE IF \E x \in CClass : Ends(name, x) THEN "c"
    ELSE IF Ends(name, <<".", "g", "o">>) THEN "go"
    ELSE "none"

\* C16: event dispatch.  Events are read only between cycles; a cycle starts
\* only in the step that reads an event, exactly when the event is a put with
\* a name that falls in a class, and with the formatter of the first class in
\* the priority custom (-e non-empty, command -c), C/C++ (clang-format), .go
\* (goimports); a read that starts no cycle writes nothing to a window.
EventDispatch ==
    [][/\ event' # event => pc = "main"
       /\ cmd' # cmd => pc = "main"
       /\ pc' = "open" => pc = "main"
       /\ (pc = "main" /\ pc' # "exit") =>
             /\ pc' = "open" <=>
                   (event'.op = "put" /\ event'.name # <<>> /\ ClassOf(event'.name) # "none")
             /\ pc' = "open" =>
                   /\ cmd' = CASE ClassOf(event'.name) = "custom" -> fmtcmd
                               [] ClassOf(event'.name) = "c" -> "clang-format"
                               [] ClassOf(event'.name) = "go" -> "goimports"
                   /\ writes' = <<>>
             /\ pc' # "open" => (pc' = "main" /\ body' = body /\ writes' = writes /\ ops' = ops)]_vars

\* a put of a .go name under -e .go: the custom command, not goimports
EventDispatchWitness ==
    /\ pc = "open"
    /\ fmtexts = <<".", "g", "o">>
    /\ event = [name |-> GoName, op |-> "put"]
    /\ cmd = "gofmt"

====
